---------------------------- MODULE Spec2Model ----------------------------
(***************************************************************************)
(* Model of haptic-guess: the two haptic analysers of haptic_sync.py       *)
(* (analyze_full_audio, detect_precise_events) and the sliding-window      *)
(* sound classifier of timeline_classify.py (classify_with_timeline).      *)
(*                                                                         *)
(* Numbers are fixed point:                                                *)
(*   RMS energy          in 1/10000        (max_energy * 500 = e / 20)     *)
(*   sensitivity, delta, probabilities and thresholds in 1/100             *)
(*   loudness, brightness in 1/10                                          *)
(*   normalized onset strength in 1/60, event intensity in 1/600           *)
(*   event times in 1/10 ms                                                *)
(* The feature extractors (RMS, onset strength, spectral centroid, the     *)
(* pretrained classifier) are inputs: an audio buffer is its length in     *)
(* samples together with the features the extractors return for it.        *)
(***************************************************************************)
EXTENDS Integers, Sequences, FiniteSets

VARIABLES pc, full, precise, classify

vars == <<pc, full, precise, classify>>

-----------------------------------------------------------------------------
(* Bounds of the model *)

\* an audio buffer given to analyze_full_audio starts at most this many seconds
MaxSeconds == 3
\* an onset envelope given to detect_precise_events has at most this many frames
MaxFrames == 5
\* onset envelope values are 0..MaxEnv
MaxEnv == 2
\* the classifier's waveform holds at most this many complete windows
MaxWindows == 3

-----------------------------------------------------------------------------
(* Program constants *)

sr == 22050
HOP_PRECISE == 256
HOP_DEFAULT == 512
EXPECTED_SAMPLES == 15600
HOP_SAMPLES == 8000
SAMPLE_RATE == 16000

-----------------------------------------------------------------------------
(* Arithmetic helpers *)

Min(a, b) == IF a <= b THEN a ELSE b
Max(a, b) == IF a >= b THEN a ELSE b

RECURSIVE SeqSum(_)
SeqSum(s) == IF s = <<>> THEN 0 ELSE Head(s) + SeqSum(Tail(s))

SeqMax(s) == CHOOSE m \in {s[i] : i \in DOMAIN s} : \A i \in DOMAIN s : s[i] <= m
SeqMin(s) == CHOOSE m \in {s[i] : i \in DOMAIN s} : \A i \in DOMAIN s : m <= s[i]

\* Python's int() on a non-negative quotient a / b: truncation
IntDiv(a, b) == a \div b

\* Python's round() of a / b to an integer: nearest, ties to the even neighbour
RoundDiv(a, b) ==
    LET q == a \div b
        r == a % b
    IN  IF 2 * r < b THEN q
        ELSE IF 2 * r > b THEN q + 1
        ELSE IF q % 2 = 0 THEN q ELSE q + 1

\* all sequences over S of length lo..hi
SeqsOf(S, lo, hi) == UNION {[1..n -> S] : n \in lo..hi}

-----------------------------------------------------------------------------
(* librosa.onset.onset_detect, as the two analysers call it *)

\* librosa's default peak-picking windows, in frames, for a hop length:
\* pre_max = 0.03*sr//hop, post_max = 0.00*sr//hop + 1,
\* pre_avg = 0.10*sr//hop, post_avg = 0.10*sr//hop + 1, wait = 0.03*sr//hop
PreMax(hop) == (3 * sr) \div (100 * hop)
PostMax(hop) == 1
PreAvg(hop) == (10 * sr) \div (100 * hop)
PostAvg(hop) == (10 * sr) \div (100 * hop) + 1
DefaultWait(hop) == (3 * sr) \div (100 * hop)

\* x[lo:hi] of a 0-indexed array held as a 1-indexed sequence
Slice(x, lo, hi) == IF hi <= lo THEN <<>> ELSE SubSeq(x, lo + 1, hi)

\* Frame n (0-indexed) of envelope x is a peak candidate: it equals the maximum
\* of x[n-pre_max : n+post_max] and is at least the mean of
\* x[n-pre_avg : n+post_avg] plus delta.  The test is made on the envelope
\* normalized to [0,1], (x - min) / (max - min); delta100 is delta in 1/100.
\* Frame 0 is compared with x[:post_max] and x[:post_avg].
IsPeak(x, n, hop, delta100) ==
    LET N    == Len(x)
        lo   == SeqMin(x)
        M    == SeqMax(x) - lo
        mw   == IF n = 0 THEN Slice(x, 0, Min(PostMax(hop), N))
                ELSE Slice(x, Max(0, n - PreMax(hop)), Min(n + PostMax(hop), N))
        aw   == IF n = 0 THEN Slice(x, 0, Min(PostAvg(hop), N))
                ELSE Slice(x, Max(0, n - PreAvg(hop)), Min(n + PostAvg(hop), N))
        cnt  == Len(aw)
        sum  == SeqSum(aw) - cnt * lo
    IN  /\ x[n + 1] = SeqMax(mw)
        /\ 100 * cnt * (x[n + 1] - lo) >= 100 * sum + delta100 * cnt * M

\* librosa.util.peak_pick: greedy left to right; after an accepted peak at n
\* the scan resumes at n + wait + 1
RECURSIVE PeakPick(_, _, _, _, _)
PeakPick(x, n, hop, delta100, wait) ==
    IF n >= Len(x) THEN <<>>
    ELSE IF IsPeak(x, n, hop, delta100)
         THEN <<n>> \o PeakPick(x, n + wait + 1, hop, delta100, wait)
         ELSE PeakPick(x, n + 1, hop, delta100, wait)

\* librosa.onset.onset_backtrack: local minima of the energy are the frames
\* i in 1..N-2 with e[i] <= e[i-1] and e[i] < e[i+1], plus frame 0
\* (fix_frames x_min=0); each onset moves to the nearest minimum at or before it
Minima(e) ==
    {0} \cup {i \in 1..(Len(e) - 2) : e[i + 1] <= e[i] /\ e[i + 1] < e[i + 2]}

BacktrackOne(e, n) == CHOOSE m \in Minima(e) :
                         /\ m <= n
                         /\ \A k \in Minima(e) : k <= n => k <= m

Backtrack(e, onsets) == [i \in DOMAIN onsets |-> BacktrackOne(e, onsets[i])]

\* onset_detect(onset_envelope=x, hop_length=hop, delta=delta100/100,
\* wait=wait, backtrack=backtrack): no onsets for an envelope that is flat
\* after normalization
OnsetDetect(x, hop, delta100, wait, backtrack) ==
    IF x = <<>> \/ SeqMax(x) = SeqMin(x) THEN <<>>
    ELSE LET peaks == PeakPick(x, 0, hop, delta100, wait)
         IN  IF backtrack THEN Backtrack(x, peaks) ELSE peaks

-----------------------------------------------------------------------------
(* analyze_full_audio *)

\* The content of one second of audio, as the feature extractors see it:
\* the maximum RMS (1/10000) and the onset strength envelope of the segment.
Flat == <<0, 0, 0>>
TwoPeaks == <<0, 1, 0, 1>>
ThreePeaks == <<0, 1, 0, 1, 0, 1>>

SegmentKinds ==
    {[max_rms |-> e, onset_env |-> Flat] : e \in {0, 99, 100, 398, 400, 1000, 3000}}
    \cup {[max_rms |-> e, onset_env |-> ThreePeaks] : e \in {300, 320, 1000}}
    \cup {[max_rms |-> 320, onset_env |-> TwoPeaks]}

\* seconds of audio that hold at least one sample
StartedSeconds(len) == (len + sr - 1) \div sr

\* buffer lengths: empty, and for every number of started seconds a buffer
\* one sample into the last second, one sample short of it, and exactly full
FullLens == {0} \cup UNION {{(n - 1) * sr + 1, n * sr - 1, n * sr} : n \in 1..MaxSeconds}

\* faulty variant: range(int(duration)), the partial final second is left out
LoopBoundExclusive(len) == IntDiv(len, sr)

\* range(int(duration) + 1)
LoopBound(len) == IntDiv(len, sr) + 1

\* faulty variant: the break on start >= len(y) is missing
LoopRunsNoBreak(sec, len) == sec < LoopBound(len)

\* the loop body runs for sec: sec is in range and start < len(y) (no break)
LoopRuns(sec, len) == sec < LoopBound(len) /\ ~(sec * sr >= len)

\* y[start:end] for start = sec*sr, end = min((sec+1)*sr, len(y)); a slice that
\* starts at or after the end of y holds no samples
EmptySegment == [max_rms |-> 0, onset_env |-> <<>>]
Segment(y, sec) == IF sec + 1 \in DOMAIN y.secs THEN y.secs[sec + 1] ELSE EmptySegment

\* faulty variant: round() in place of int()
IntensityRounded(max_rms) == Min(100, RoundDiv(max_rms * 500, 10000))

\* intensity = min(100, int(max_energy * 500))
Intensity(max_rms) == Min(100, IntDiv(max_rms * 500, 10000))

StrengthOf(intensity) ==
    IF intensity >= 50 THEN "strong"
    ELSE IF intensity >= 20 THEN "medium"
    ELSE IF intensity >= 5 THEN "light"
    ELSE "none"

\* faulty variant: a light slot vibrates too
VibrateOfLight(intensity) == intensity >= 5

VibrateOf(intensity) ==
    IF intensity >= 50 THEN TRUE
    ELSE IF intensity >= 20 THEN TRUE
    ELSE FALSE

ActionOf(intensity, num_impacts) ==
    IF intensity < 5 THEN "silence"
    ELSE IF num_impacts > 2 /\ intensity > 15 THEN "slice"
    ELSE IF intensity >= 50 THEN "impact"
    ELSE "sound"

\* onsets of a segment: onset_detect(onset_envelope=onset_env, sr=sr, delta=0.1)
NumImpacts(onset_env) ==
    Len(OnsetDetect(onset_env, HOP_DEFAULT, 10, DefaultWait(HOP_DEFAULT), FALSE))

SlotOf(sec, segment) ==
    LET intensity   == Intensity(segment.max_rms)
        num_impacts == NumImpacts(segment.onset_env)
    IN  [second    |-> sec,
         intensity |-> intensity,
         vibrate   |-> VibrateOf(intensity),
         strength  |-> StrengthOf(intensity),
         action    |-> ActionOf(intensity, num_impacts),
         impacts   |-> num_impacts]

NoResult == [returned |-> FALSE]

FullIdle == [y |-> [len |-> 0, secs |-> <<>>], sec |-> 0, timeline |-> <<>>,
             result |-> NoResult]

VibrationSeconds(timeline) == Cardinality({i \in DOMAIN timeline : timeline[i].vibrate})

CallAnalyzeFull ==
    /\ pc = "idle"
    /\ \E len \in FullLens :
         \E secs \in [1..StartedSeconds(len) -> SegmentKinds] :
            full' = [FullIdle EXCEPT !.y = [len |-> len, secs |-> secs]]
    /\ pc' = "full_loop"
    /\ UNCHANGED <<precise, classify>>

FullIteration ==
    /\ pc = "full_loop"
    /\ LoopRuns(full.sec, full.y.len)
    /\ full' = [full EXCEPT
                  !.timeline = Append(@, SlotOf(full.sec, Segment(full.y, full.sec))),
                  !.sec = @ + 1]
    /\ UNCHANGED <<pc, precise, classify>>

FullReturn ==
    /\ pc = "full_loop"
    /\ ~LoopRuns(full.sec, full.y.len)
    /\ full' = [full EXCEPT !.result =
                  [returned          |-> TRUE,
                   total_seconds     |-> Len(full.timeline),
                   vibration_seconds |-> VibrationSeconds(full.timeline),
                   timeline          |-> full.timeline]]
    /\ pc' = "full_done"
    /\ UNCHANGED <<precise, classify>>

-----------------------------------------------------------------------------
(* detect_precise_events *)

\* a NaN onset strength (0/0 under numpy, warnings are ignored)
NaN == -1

\* faulty variant: the sensitivity itself is used as the threshold
ThresholdInverted(sensitivity) == Max(5, sensitivity)

\* threshold = max(0.05, 1.0 - sensitivity), in 1/100
Threshold(sensitivity) == Max(5, 100 - sensitivity)

\* wait = int(min_gap_ms * sr / 1000 / 256)
WaitFrames(min_gap_ms) == IntDiv(min_gap_ms * sr, 1000 * HOP_PRECISE)

\* onsets of the whole file: onset_detect(onset_envelope=onset_env,
\* hop_length=256, delta=threshold, wait=..., backtrack=True)
PreciseOnsets(onset_env, sensitivity, min_gap_ms) ==
    OnsetDetect(onset_env, HOP_PRECISE, Threshold(sensitivity),
                WaitFrames(min_gap_ms), TRUE)

\* np.max(onset_strengths) for onset_strengths = onset_env[onsets]
Divisor(onset_env, onsets) == SeqMax([i \in DOMAIN onsets |-> onset_env[onsets[i] + 1]])

\* onset_strengths = onset_env[onsets] if len(onsets) > 0 else [];
\* if len(onset_strengths) > 0: onset_strengths / np.max(onset_strengths).
\* In 1/60; a zero maximum makes every strength 0/0 = NaN.
OnsetStrengths(onset_env, onsets) ==
    IF Len(onsets) > 0
    THEN LET d == Divisor(onset_env, onsets)
         IN  [i \in DOMAIN onsets |->
                IF d = 0 THEN NaN ELSE (60 * onset_env[onsets[i] + 1]) \div d]
    ELSE <<>>

\* librosa.frames_to_time(frame) * 1000, rounded to 1 decimal, in 1/10 ms
TimeMs(frame) == RoundDiv(frame * HOP_PRECISE * 10000, sr)

\* start_sample = int(time * sr): frame * 256 (exact for the frames modelled)
StartSample(frame) == frame * HOP_PRECISE

\* end_sample = min(start_sample + int(0.05 * sr), len(y))
EndSample(frame, len) == Min(StartSample(frame) + IntDiv(5 * sr, 100), len)

\* if end_sample > start_sample
WindowNonEmpty(frame, len) == EndSample(frame, len) > StartSample(frame)

\* intensity = min(1.0, float(strength) * 0.6 + loudness * 0.4), in 1/600;
\* Python's min(1.0, nan) is 1.0
EventIntensity(strength, loudness) ==
    IF strength = NaN THEN 600
    ELSE Min(600, 6 * strength + 24 * loudness)

\* faulty variant: a wider duration scale
DurationMsWide(intensity) == IntDiv(20 * 600 + 50 * intensity, 600)

\* duration_ms = int(20 + intensity * 30)
DurationMs(intensity) == IntDiv(20 * 600 + 30 * intensity, 600)

HapticType(brightness) ==
    IF brightness > 5 THEN "sharp"
    ELSE IF 2 * brightness > 5 THEN "medium"
    ELSE "heavy"

\* the event appended for an onset; intensity is round(intensity, 3) in 1/1000
EventOf(frame, strength, loudness, brightness) ==
    LET intensity == EventIntensity(strength, loudness)
    IN  [time_ms     |-> TimeMs(frame),
         intensity   |-> RoundDiv(intensity * 1000, 600),
         type        |-> HapticType(brightness),
         duration_ms |-> DurationMs(intensity)]

\* number of events detect_precise_events returns for a buffer
TotalEvents(onset_env, len, sensitivity, min_gap_ms) ==
    LET onsets == PreciseOnsets(onset_env, sensitivity, min_gap_ms)
    IN  Cardinality({i \in DOMAIN onsets : WindowNonEmpty(onsets[i], len)})

\* inputs: the onset envelope of a non-empty file (1 + len(y) // 256 frames),
\* and for each event window its loudness and brightness (1/10)
OnsetEnvelopes == SeqsOf(0..MaxEnv, 1, MaxFrames)
PreciseLens(onset_env) ==
    {len \in {(Len(onset_env) - 1) * HOP_PRECISE,
              (Len(onset_env) - 1) * HOP_PRECISE + 128} : len > 0}
Sensitivities == {-50, 0, 50, 80, 100, 150}
MinGaps == {10, 30}
WindowFeatures == {[loudness |-> 0, brightness |-> 4],
                   [loudness |-> 10, brightness |-> 8]}

PreciseIdle == [y_len |-> 0, onset_env |-> <<>>, sensitivity |-> 0, min_gap_ms |-> 0,
                onsets |-> <<>>, onset_strengths |-> <<>>, k |-> 0,
                events |-> <<>>, result |-> NoResult]

\* the call up to the events loop (lines 92-114)
CallDetectPrecise ==
    /\ pc = "idle"
    /\ \E onset_env \in OnsetEnvelopes, sensitivity \in Sensitivities,
          min_gap_ms \in MinGaps :
         \E len \in PreciseLens(onset_env) :
            LET onsets == PreciseOnsets(onset_env, sensitivity, min_gap_ms)
            IN  precise' = [PreciseIdle EXCEPT
                              !.y_len = len,
                              !.onset_env = onset_env,
                              !.sensitivity = sensitivity,
                              !.min_gap_ms = min_gap_ms,
                              !.onsets = onsets,
                              !.onset_strengths = OnsetStrengths(onset_env, onsets),
                              !.k = 1]
    /\ pc' = "precise_loop"
    /\ UNCHANGED <<full, classify>>

\* one pass of: for time, strength in zip(onset_times, onset_strengths)
PreciseIteration ==
    /\ pc = "precise_loop"
    /\ precise.k <= Len(precise.onsets)
    /\ LET frame    == precise.onsets[precise.k]
           strength == precise.onset_strengths[precise.k]
       IN  IF WindowNonEmpty(frame, precise.y_len)
           THEN \E f \in WindowFeatures :
                   precise' = [precise EXCEPT
                      !.events = Append(@, EventOf(frame, strength, f.loudness,
                                                   f.brightness)),
                      !.k = @ + 1]
           ELSE precise' = [precise EXCEPT !.k = @ + 1]
    /\ UNCHANGED <<pc, full, classify>>

PreciseReturn ==
    /\ pc = "precise_loop"
    /\ precise.k > Len(precise.onsets)
    /\ precise' = [precise EXCEPT !.result =
                     [returned     |-> TRUE,
                      total_events |-> Len(precise.events),
                      sensitivity  |-> precise.sensitivity,
                      events       |-> precise.events]]
    /\ pc' = "precise_done"
    /\ UNCHANGED <<full, classify>>

-----------------------------------------------------------------------------
(* classify_with_timeline *)

\* text is a sequence of one-character strings
UpperLetters == <<"A", "B", "C", "D", "E", "F", "G", "H", "I", "J", "K", "L", "M",
                  "N", "O", "P", "Q", "R", "S", "T", "U", "V", "W", "X", "Y", "Z">>
LowerLetters == <<"a", "b", "c", "d", "e", "f", "g", "h", "i", "j", "k", "l", "m",
                  "n", "o", "p", "q", "r", "s", "t", "u", "v", "w", "x", "y", "z">>

LowerChar(c) ==
    IF \E i \in DOMAIN UpperLetters : UpperLetters[i] = c
    THEN LowerLetters[CHOOSE i \in DOMAIN UpperLetters : UpperLetters[i] = c]
    ELSE c

\* str.lower()
Lower(text) == [i \in DOMAIN text |-> LowerChar(text[i])]

\* the Python test: t in text
Contains(text, t) ==
    \E i \in 0..(Len(text) - Len(t)) : SubSeq(text, i + 1, i + Len(t)) = t

\* the class map (yamnet_classes), indexed by class id + 1
yamnet_classes == << <<"S", "l", "i", "c", "e">>, <<"D", "o", "o", "r">> >>

\* the windows range(0, len(waveform) - EXPECTED_SAMPLES + 1, HOP_SAMPLES) visits
\* after start_sample
WindowInRange(start_sample, len) == start_sample < len - EXPECTED_SAMPLES + 1

\* np.where(chunk_scores >= threshold)[0], as class ids in ascending order
RECURSIVE AboveThreshold(_, _, _)
AboveThreshold(chunk_scores, threshold, idx) ==
    IF idx >= Len(chunk_scores) THEN <<>>
    ELSE (IF chunk_scores[idx + 1] >= threshold THEN <<idx>> ELSE <<>>)
         \o AboveThreshold(chunk_scores, threshold, idx + 1)

\* faulty variant: the comparison is case-sensitive
MatchesTargetCaseSensitive(sound_name, target_sounds) ==
    Len(target_sounds) > 0 =>
        \E i \in DOMAIN target_sounds : Contains(sound_name, target_sounds[i])

\* the event passes the target filter: no filter for None or an empty list,
\* else any(t.lower() in sound_name.lower() for t in target_sounds)
MatchesTarget(sound_name, target_sounds) ==
    Len(target_sounds) > 0 =>
        \E i \in DOMAIN target_sounds :
            Contains(Lower(sound_name), Lower(target_sounds[i]))

\* times in ms: round(start_sample / SAMPLE_RATE, 3), CHUNK_DURATION = 0.975
SoundEvent(start_sample, chunk_scores, idx) ==
    [time_start |-> RoundDiv(start_sample * 1000, SAMPLE_RATE),
     time_end   |-> RoundDiv(start_sample * 1000, SAMPLE_RATE) + 975,
     sound      |-> yamnet_classes[idx + 1],
     confidence |-> chunk_scores[idx + 1],
     class_id   |-> idx]

\* the events one window appends, in class id order
RECURSIVE WindowEvents(_, _, _, _)
WindowEvents(start_sample, chunk_scores, above, target_sounds) ==
    IF above = <<>> THEN <<>>
    ELSE (IF MatchesTarget(yamnet_classes[Head(above) + 1], target_sounds)
          THEN <<SoundEvent(start_sample, chunk_scores, Head(above))>>
          ELSE <<>>)
         \o WindowEvents(start_sample, chunk_scores, Tail(above), target_sounds)

\* the sort key (x["time_start"], -x["confidence"])
KeyLess(a, b) ==
    \/ a.time_start < b.time_start
    \/ a.time_start = b.time_start /\ a.confidence > b.confidence

\* list.sort is stable: an element goes after every element whose key is not greater
RECURSIVE InsertSorted(_, _)
InsertSorted(sorted, e) ==
    IF sorted = <<>> THEN <<e>>
    ELSE IF KeyLess(e, Head(sorted)) THEN <<e>> \o sorted
    ELSE <<Head(sorted)>> \o InsertSorted(Tail(sorted), e)

RECURSIVE SortTimeline(_)
SortTimeline(timeline) ==
    IF timeline = <<>> THEN <<>>
    ELSE InsertSorted(SortTimeline(SubSeq(timeline, 1, Len(timeline) - 1)),
                      timeline[Len(timeline)])

\* inputs: waveform lengths around every window boundary, thresholds (1/100)
\* inside and outside [0,1], target lists, per-class probabilities (1/100)
ClassifyLens ==
    {0, EXPECTED_SAMPLES - 1}
    \cup UNION {{EXPECTED_SAMPLES + (w - 1) * HOP_SAMPLES,
                 EXPECTED_SAMPLES + w * HOP_SAMPLES - 1} : w \in 1..MaxWindows}
Thresholds == {-10, 10, 30, 150}
TargetLists == {<<>>,
                << <<"s", "l", "i", "c", "e">> >>,
                << <<"x">>, <<"D", "O", "O">> >>,
                << <<"k", "n", "i", "f", "e">> >>}
ScoreVectors == [1..Len(yamnet_classes) -> {10, 30}]

ClassifyIdle == [waveform_len |-> 0, threshold |-> 0, target_sounds |-> <<>>,
                 start_sample |-> 0, windows |-> <<>>, timeline |-> <<>>,
                 result |-> NoResult]

CallClassify ==
    /\ pc = "idle"
    /\ \E len \in ClassifyLens, threshold \in Thresholds, target_sounds \in TargetLists :
         classify' = [ClassifyIdle EXCEPT
                        !.waveform_len = len,
                        !.threshold = threshold,
                        !.target_sounds = target_sounds]
    /\ pc' = "classify_loop"
    /\ UNCHANGED <<full, precise>>

\* one window: the interpreter scores the chunk, the events above the
\* threshold that pass the filter are appended; windows records what the
\* interpreter was run on and returned
ClassifyIteration ==
    /\ pc = "classify_loop"
    /\ WindowInRange(classify.start_sample, classify.waveform_len)
    /\ \E chunk_scores \in ScoreVectors :
         classify' = [classify EXCEPT
            !.windows = Append(@, [start_sample |-> classify.start_sample,
                                   chunk_scores |-> chunk_scores]),
            !.timeline = @ \o WindowEvents(classify.start_sample, chunk_scores,
                                AboveThreshold(chunk_scores, classify.threshold, 0),
                                classify.target_sounds),
            !.start_sample = @ + HOP_SAMPLES]
    /\ UNCHANGED <<pc, full, precise>>

ClassifyReturn ==
    /\ pc = "classify_loop"
    /\ ~WindowInRange(classify.start_sample, classify.waveform_len)
    /\ classify' = [classify EXCEPT
          !.timeline = SortTimeline(classify.timeline),
          !.result = [returned     |-> TRUE,
                      threshold    |-> classify.threshold,
                      total_events |-> Len(classify.timeline),
                      timeline     |-> SortTimeline(classify.timeline)]]
    /\ pc' = "classify_done"
    /\ UNCHANGED <<full, precise>>

Init ==
    /\ pc = "idle"
    /\ full = FullIdle
    /\ precise = PreciseIdle
    /\ classify = ClassifyIdle

NextFull == CallAnalyzeFull \/ FullIteration \/ FullReturn

SpecFull == Init /\ [][NextFull]_vars

NextPrecise == CallDetectPrecise \/ PreciseIteration \/ PreciseReturn

SpecPrecise == Init /\ [][NextPrecise]_vars

NextClassify == CallClassify \/ ClassifyIteration \/ ClassifyReturn

SpecClassify == Init /\ [][NextClassify]_vars

Next == NextFull \/ NextPrecise \/ NextClassify

Spec == Init /\ [][Next]_vars

-----------------------------------------------------------------------------
(* Properties of analyze_full_audio *)

FullSlots == {full.timeline[i] : i \in DOMAIN full.timeline}

\* C1, as stated: the returned timeline has floor(duration) + 1 slots, one for
\* each second 0..floor(duration) in ascending order, and total_seconds is
\* that count, for every buffer length.
C1_SlotPerSecondInclusive ==
    pc = "full_done" =>
        /\ Len(full.result.timeline) = (full.y.len \div sr) + 1
        /\ \A i \in DOMAIN full.result.timeline :
              full.result.timeline[i].second = i - 1
        /\ full.result.total_seconds = (full.y.len \div sr) + 1

\* C1, amended: the returned timeline has one slot for each second that holds
\* at least one sample, in ascending order from 0 with none missing or
\* repeated: floor(duration) + 1 slots when the length is not a whole number
\* of seconds, floor(duration) slots when it is; total_seconds is that count.
C1_SlotPerStartedSecond ==
    pc = "full_done" =>
        /\ Len(full.result.timeline) =
              IF full.y.len % sr = 0 THEN full.y.len \div sr
              ELSE (full.y.len \div sr) + 1
        /\ \A i \in DOMAIN full.result.timeline :
              full.result.timeline[i].second = i - 1
        /\ full.result.total_seconds = Len(full.result.timeline)

C1_Witness ==
    /\ pc = "full_done"
    /\ full.y.len = 2 * sr
    /\ full.result.total_seconds = 2
    /\ full.result.timeline[2].second = 1

IsSilent(y) == \A i \in DOMAIN y.secs : y.secs[i].max_rms = 0 /\ y.secs[i].onset_env = Flat

\* C2: a silent buffer of exactly N >= 1 whole seconds yields exactly N slots,
\* each with action "silence", vibrate false and intensity 0, and
\* vibration_seconds = 0.
C2_SilentWholeSeconds ==
    (pc = "full_done" /\ full.y.len > 0 /\ full.y.len % sr = 0 /\ IsSilent(full.y)) =>
        /\ Len(full.result.timeline) = full.y.len \div sr
        /\ full.result.total_seconds = full.y.len \div sr
        /\ \A i \in DOMAIN full.result.timeline :
              /\ full.result.timeline[i].action = "silence"
              /\ full.result.timeline[i].vibrate = FALSE
              /\ full.result.timeline[i].intensity = 0
        /\ full.result.vibration_seconds = 0

C2_Witness ==
    /\ pc = "full_done"
    /\ full.y.len = 3 * sr
    /\ IsSilent(full.y)
    /\ Len(full.result.timeline) = 3

\* C7: in every slot, with intensity i in 0..100 and impact count c >= 0,
\* strength is strong if i >= 50, medium if 20 <= i < 50, light if 5 <= i < 20,
\* none below 5; vibrate holds exactly when i >= 20; action is silence if
\* i < 5, else slice if c > 2 and i > 15, else impact if i >= 50, else sound.
C7_SlotLabels ==
    \A s \in FullSlots :
        /\ s.intensity \in 0..100
        /\ s.impacts >= 0
        /\ (s.strength = "strong") = (s.intensity >= 50)
        /\ (s.strength = "medium") = (s.intensity >= 20 /\ s.intensity < 50)
        /\ (s.strength = "light") = (s.intensity >= 5 /\ s.intensity < 20)
        /\ (s.strength = "none") = (s.intensity < 5)
        /\ s.vibrate = (s.intensity >= 20)
        /\ (s.action = "silence") = (s.intensity < 5)
        /\ (s.action = "slice") = (s.intensity > 15 /\ s.impacts > 2)
        /\ (s.action = "impact") = (s.intensity >= 50 /\ s.impacts <= 2)
        /\ (s.action = "sound") =
              (s.intensity >= 5 /\ s.intensity < 50 /\ ~(s.impacts > 2 /\ s.intensity > 15))

C7_Witness ==
    /\ \E s \in FullSlots : s.action = "slice" /\ s.impacts = 3 /\ s.intensity = 16
    /\ \E s \in FullSlots : s.strength = "light" /\ ~s.vibrate /\ s.impacts = 3
                            /\ s.action = "sound"
    /\ \E s \in FullSlots : s.action = "impact" /\ s.vibrate

\* C10, as stated: the slot intensity is min(100, round(max_rms * 500)),
\* rounded to the nearest integer.
C10_IntensityRounded ==
    \A i \in DOMAIN full.timeline :
        full.timeline[i].intensity =
            Min(100, RoundDiv(full.y.secs[i].max_rms * 500, 10000))

\* C10, amended: the slot intensity is min(100, floor(max_rms * 500)), the
\* scaled maximum RMS truncated (not rounded) and capped at 100, so it lies in
\* 0..100; a segment with max_rms * 500 in [19.5, 20) gets intensity 19 and
\* vibrate = false.
C10_IntensityTruncated ==
    \A i \in DOMAIN full.timeline :
        LET scaled == full.y.secs[i].max_rms * 500
            slot   == full.timeline[i]
        IN  /\ slot.intensity \in 0..100
            /\ scaled >= 100 * 10000 => slot.intensity = 100
            /\ scaled < 100 * 10000 =>
                  /\ slot.intensity * 10000 <= scaled
                  /\ scaled < (slot.intensity + 1) * 10000
            /\ (195000 <= scaled /\ scaled < 200000) =>
                  slot.intensity = 19 /\ slot.vibrate = FALSE

C10_Witness ==
    \E i \in DOMAIN full.timeline :
        /\ full.y.secs[i].max_rms = 398
        /\ full.timeline[i].intensity = 19
        /\ full.timeline[i].vibrate = FALSE

-----------------------------------------------------------------------------
(* Properties of detect_precise_events *)

\* C3: the returned events have non-decreasing times and no two of them are
\* closer together than min_gap_ms.
C3_MinGapKept ==
    pc = "precise_done" =>
        \A i, j \in DOMAIN precise.result.events :
            i < j =>
               /\ precise.result.events[i].time_ms <= precise.result.events[j].time_ms
               /\ precise.result.events[j].time_ms - precise.result.events[i].time_ms
                     >= 10 * precise.min_gap_ms

\* C4: for the same buffer and min_gap_ms and sensitivities s1 <= s2 in [0,1],
\* the call with s2 returns at least as many events as the call with s1.
C4_Monotone ==
    (pc = "precise_done" /\ precise.sensitivity \in 0..100) =>
        \A s1 \in Sensitivities :
            (0 <= s1 /\ s1 <= precise.sensitivity) =>
                TotalEvents(precise.onset_env, precise.y_len, s1, precise.min_gap_ms)
                    <= precise.result.total_events

C4_Witness ==
    /\ pc = "precise_done"
    /\ precise.sensitivity = 80
    /\ precise.result.total_events = 2
    /\ TotalEvents(precise.onset_env, precise.y_len, 50, precise.min_gap_ms) = 1

\* C5: when at least one onset is retained the divisor of the normalization
\* is strictly positive and every normalized strength lies in [0,1]; when
\* none is retained the normalized list is empty.
C5_NoDivisionByZero ==
    pc \in {"precise_loop", "precise_done"} =>
        IF Len(precise.onsets) = 0
        THEN precise.onset_strengths = <<>>
        ELSE /\ Divisor(precise.onset_env, precise.onsets) > 0
             /\ \A i \in DOMAIN precise.onset_strengths :
                   precise.onset_strengths[i] \in 0..60

\* C6, as stated: every returned event has an intensity in [0.1, 1.0] and a
\* duration_ms between 23 and 50.
C6_IntensityFloor ==
    pc = "precise_done" =>
        \A i \in DOMAIN precise.result.events :
            /\ precise.result.events[i].intensity \in 100..1000
            /\ precise.result.events[i].duration_ms \in 23..50

\* C6, amended: every returned event has an intensity in [0, 1.0] (capped at
\* 1.0, with no lower clamp) and a duration_ms between 20 and 50.
C6_IntensityCapped ==
    pc = "precise_done" =>
        \A i \in DOMAIN precise.result.events :
            /\ precise.result.events[i].intensity \in 0..1000
            /\ precise.result.events[i].duration_ms \in 20..50

C6_Witness ==
    /\ pc = "precise_done"
    /\ \E i \in DOMAIN precise.result.events :
          precise.result.events[i].intensity = 0 /\ precise.result.events[i].duration_ms = 20
    /\ \E i \in DOMAIN precise.result.events :
          precise.result.events[i].intensity = 1000 /\ precise.result.events[i].duration_ms = 50

-----------------------------------------------------------------------------
(* Properties of classify_with_timeline *)

\* the (window, class id) pairs that must be reported
ReportedPairs ==
    {<<w, c>> \in (DOMAIN classify.windows) \X (0..(Len(yamnet_classes) - 1)) :
        /\ classify.windows[w].chunk_scores[c + 1] >= classify.threshold
        /\ \/ classify.target_sounds = <<>>
           \/ \E i \in DOMAIN classify.target_sounds :
                 Contains(Lower(yamnet_classes[c + 1]), Lower(classify.target_sounds[i]))}

\* C8: the windows evaluated are exactly those of 15600 samples starting at
\* 0, 8000, 16000, ... that lie entirely inside the waveform (none for a
\* waveform shorter than 15600 samples); one event is emitted for exactly the
\* (window, class) pairs with probability >= threshold whose label contains
\* an allow-list term case-insensitively when the list is non-empty, and
\* total_events is the number of such pairs.
C8_WindowsAndEvents ==
    pc = "classify_done" =>
        /\ \A w \in DOMAIN classify.windows :
              /\ classify.windows[w].start_sample = (w - 1) * 8000
              /\ classify.windows[w].start_sample + 15600 <= classify.waveform_len
        /\ Len(classify.windows) * 8000 + 15600 > classify.waveform_len
        /\ classify.waveform_len < 15600 =>
              classify.windows = <<>> /\ classify.result.timeline = <<>>
        /\ classify.result.total_events = Cardinality(ReportedPairs)
        /\ Len(classify.result.timeline) = Cardinality(ReportedPairs)
        /\ \A p \in ReportedPairs :
              \E i \in DOMAIN classify.result.timeline :
                 /\ classify.result.timeline[i].class_id = p[2]
                 /\ classify.result.timeline[i].sound = yamnet_classes[p[2] + 1]
                 /\ 16 * classify.result.timeline[i].time_start
                       = classify.windows[p[1]].start_sample
                 /\ classify.result.timeline[i].confidence
                       = classify.windows[p[1]].chunk_scores[p[2] + 1]
        /\ \A i \in DOMAIN classify.result.timeline :
              \E p \in ReportedPairs :
                 /\ classify.result.timeline[i].class_id = p[2]
                 /\ 16 * classify.result.timeline[i].time_start
                       = classify.windows[p[1]].start_sample

C8_Witness ==
    /\ pc = "classify_done"
    /\ classify.waveform_len = 15600 + 2 * 8000 - 1
    /\ Len(classify.windows) = 2
    /\ classify.target_sounds = << <<"s", "l", "i", "c", "e">> >>
    /\ classify.threshold = 30
    /\ classify.windows[1].chunk_scores = <<30, 30>>
    /\ classify.windows[2].chunk_scores = <<10, 30>>
    /\ classify.result.total_events = 1
    /\ classify.result.timeline[1].sound = <<"S", "l", "i", "c", "e">>

-----------------------------------------------------------------------------
(* Parameter validation *)

\* C9: a sensitivity outside [0,1] given to detect_precise_events, or a
\* threshold outside [0,1] given to classify_with_timeline, is rejected before
\* processing: the call analyses nothing and returns no timeline.
C9_OutOfRangeRejected ==
    /\ (pc = "precise_done" /\ precise.sensitivity \notin 0..100) =>
          precise.result.returned = FALSE
    /\ (pc = "classify_done" /\ classify.threshold \notin 0..100) =>
          classify.result.returned = FALSE

=============================================================================
